---- MODULE Spec2Model ----
(***************************************************************************)
(* The QuickFIX dictionary import of ferrumfix (crates/fefix, module       *)
(* fefix_core::dict): parse_quickfix_xml turns a deserialized document     *)
(* (fields, components, messages, header, trailer) into a Dictionary.      *)
(* Every loop iteration of the pipeline is one step of the model; a        *)
(* failing unwrap() or map index is a panic that ends the import. A        *)
(* returned Dictionary is read by concurrent readers and can be exported   *)
(* by dictionary_to_quickfix_xml, whose text is then imported again.       *)
(***************************************************************************)
EXTENDS Integers, Sequences, FiniteSets, TLC

VARIABLES doc, first, previous, observed, pc, i, dict, components, queue,
          visiting, visited, sorted, outcome, panic_at, builder, added

vars == <<doc, first, previous, observed, pc, i, dict, components, queue,
          visiting, visited, sorted, outcome, panic_at, builder, added>>

(***************************************************************************)
(* Bounds of the input documents.                                          *)
(***************************************************************************)
MaxFields == 2
MaxRefs == 2
MaxDepth == 2
MaxItems == 2
MaxMessages == 2
MaxMissing == 1
MaxAdds == 3
NumReaders == 2

SeqsUpTo(S, n) == UNION {[1..k -> S] : k \in 0..n}

Range(s) == {s[k] : k \in DOMAIN s}

IsInjective(s) == \A a, b \in DOMAIN s : s[a] = s[b] => a = b

(***************************************************************************)
(* Option<T>: None and Some(v).                                            *)
(***************************************************************************)
NoneSeq == [some |-> FALSE, v |-> <<>>]
SomeSeq(s) == [some |-> TRUE, v |-> s]
NoneId == [some |-> FALSE, v |-> 0]
SomeId(n) == [some |-> TRUE, v |-> n]

(***************************************************************************)
(* The deserialized document: enum Item and the structs Field, FieldEnum,  *)
(* Component and Message of quickfix_parser.rs.                            *)
(***************************************************************************)
FieldItem(n, r) == [kind |-> "field", name |-> n, required |-> r, items |-> <<>>]
GroupItem(n, r, its) == [kind |-> "group", name |-> n, required |-> r, items |-> its]
ComponentItem(n, r) == [kind |-> "component", name |-> n, required |-> r, items |-> <<>>]

RawFieldEnum(e, d) == [name |-> e, description |-> d]
RawField(t, n, ty, vs) == [number |-> t, name |-> n, datatype |-> ty, values |-> vs]
RawComponent(n, its) == [name |-> n, items |-> its]
RawMessage(n, mt, its) == [name |-> n, msgtype |-> mt, items |-> its]

\* The text handed to the import: whether it is well-formed XML, which of
\* the attributes and sections of struct Fix it lacks, and the content of
\* those it has.
Attributes == {"type", "major", "minor", "servicepack"}
Sections == {"header", "trailer", "messages", "components", "fields"}

Fix(fs, cs, ms, h, t) ==
    [well_formed |-> TRUE, missing |-> {},
     type |-> "FIX", major |-> "4", minor |-> "4", servicepack |-> "0",
     fields |-> fs, components |-> cs, messages |-> ms, header |-> h, trailer |-> t]

(***************************************************************************)
(* The Dictionary: its collections and the symbol table, one map keyed by  *)
(* the enum Key (mod.rs, mod symbol_table).                                *)
(***************************************************************************)
Key(kind, s, n) == [kind |-> kind, s |-> s, n |-> n]
DatatypeByName(s) == Key("DatatypeByName", s, 0)
FieldByTag(t) == Key("FieldByTag", "", t)
FieldByName(s) == Key("FieldByName", s, 0)
ComponentByName(s) == Key("ComponentByName", s, 0)
MessageByName(s) == Key("MessageByName", s, 0)
MessageByMsgType(s) == Key("MessageByMsgType", s, 0)

Abbreviation(s) == Key("Abbreviation", s, 0)

DictionaryNew(version) ==
    [version |-> version,
     symbol_table |-> [k \in {} |-> 0],
     abbreviations |-> <<>>,
     data_types |-> <<>>,
     fields |-> <<>>,
     components |-> <<>>,
     messages |-> <<>>]

\* FnvHashMap::insert: a later insert under the same key replaces the value.
Insert(st, k, iid) == [x \in DOMAIN st \cup {k} |-> IF x = k THEN iid ELSE st[x]]

\* Internal ids are positions counted from 0; sequences are indexed from 1.
Get(vec, iid) == vec[iid + 1]

\* Mutant: a key that is not in the table is answered with the first id.
symbolOrFirst(d, k) == IF k \in DOMAIN d.symbol_table THEN SomeId(d.symbol_table[k]) ELSE SomeId(0)

symbol(d, k) == IF k \in DOMAIN d.symbol_table THEN SomeId(d.symbol_table[k]) ELSE NoneId

abbreviation_for(d, term) == symbol(d, Abbreviation(term))
datatype_by_name(d, name) == symbol(d, DatatypeByName(name))
field_by_tag(d, tag) == symbol(d, FieldByTag(tag))
field_by_name(d, name) == symbol(d, FieldByName(name))
\* Mutant: an unknown component name is answered with the next free id.
component_by_nameOrNext(d, name) ==
    IF ComponentByName(name) \in DOMAIN d.symbol_table
    THEN SomeId(d.symbol_table[ComponentByName(name)])
    ELSE SomeId(Len(d.components))
component_by_name(d, name) == symbol(d, ComponentByName(name))
message_by_name(d, name) == symbol(d, MessageByName(name))
message_by_msgtype(d, msgtype) == symbol(d, MessageByMsgType(msgtype))

add_datatype(d, dt) ==
    LET iid == Len(d.data_types)
    IN [d EXCEPT !.symbol_table = Insert(@, DatatypeByName(dt.name), iid),
                 !.data_types = Append(@, dt)]

add_field(d, field) ==
    LET iid == Len(d.fields)
    IN [d EXCEPT !.symbol_table =
                     Insert(Insert(@, FieldByName(field.name), iid), FieldByTag(field.tag), iid),
                 !.fields = Append(@, field)]

add_message(d, message) ==
    LET iid == Len(d.messages)
    IN [d EXCEPT !.symbol_table =
                     Insert(Insert(@, MessageByName(message.name), iid),
                            MessageByMsgType(message.msg_type), iid),
                 !.messages = Append(@, message)]

\* Mutant: the component is put in front of the collection.
add_componentFront(d, component) ==
    LET iid == Len(d.components)
    IN [d EXCEPT !.symbol_table = Insert(@, ComponentByName(component.name), iid),
                 !.components = <<component>> \o @]

add_component(d, component) ==
    LET iid == Len(d.components)
    IN [d EXCEPT !.symbol_table = Insert(@, ComponentByName(component.name), iid),
                 !.components = Append(@, component)]

(***************************************************************************)
(* The stand-alone DictionaryBuilder of builder.rs: four collections and   *)
(* no symbol table. Every add returns the id it gave and changes the       *)
(* builder; the operators return both. The id is the collection's length   *)
(* cast to u32, which is the length itself below 2^32 elements.            *)
(***************************************************************************)
DictionaryBuilderNew(version) ==
    [version |-> version, messages |-> <<>>, fields |-> <<>>, data_types |-> <<>>,
     sections |-> <<>>]

Builder_add_field(b, field) ==
    LET id == Len(b.fields)
    IN [id |-> id, builder |-> [b EXCEPT !.fields = Append(@, field)]]

Builder_add_message(b, message) ==
    LET id == Len(b.messages)
    IN [id |-> id, builder |-> [b EXCEPT !.messages = Append(@, message)]]

Builder_add_datatype(b, datatype) ==
    LET id == Len(b.data_types)
    IN [id |-> id, builder |-> [b EXCEPT !.data_types = Append(@, datatype)]]

\* Mutant: the id of a section is counted from one.
Builder_add_sectionFromOne(b, section) ==
    LET id == Len(b.sections) + 1
    IN [id |-> id, builder |-> [b EXCEPT !.sections = Append(@, section)]]

Builder_add_section(b, section) ==
    LET id == Len(b.sections)
    IN [id |-> id, builder |-> [b EXCEPT !.sections = Append(@, section)]]

\* struct Section {}: a section carries nothing.
Section == [kind |-> "section"]

\* The iterators walk the collections from the first element to the last.
iter_datatypes(d) == d.data_types
iter_messages(d) == d.messages
iter_fields(d) == d.fields
iter_components(d) == d.components

DatatypeNew(name) == [name |-> name]

\* Field::new(name, number, datatype): the field keeps the id of its datatype.
FieldNew(name, tag, data_type_iid) ==
    [name |-> name, tag |-> tag, data_type_iid |-> data_type_iid,
     value_restrictions |-> NoneSeq, is_group |-> FALSE]

FieldEnumData(value, description) == [value |-> value, description |-> description]

ComponentNew(name) == [name |-> name, layout_items |-> <<>>]

MessageNew(msg_type, name) == [msg_type |-> msg_type, name |-> name, layout_items |-> <<>>]

\* Mutant: every field item is required.
LayoutItemFieldAlwaysRequired(required, iid) ==
    [required |-> TRUE, kind |-> "field", iid |-> iid, items |-> <<>>]

LayoutItemField(required, iid) ==
    [required |-> required, kind |-> "field", iid |-> iid, items |-> <<>>]
\* Mutant: the counter field's id is taken one too high.
LayoutItemGroupOffByOne(required, len_field_iid, contents) ==
    [required |-> required, kind |-> "group", iid |-> len_field_iid + 1, items |-> contents]
LayoutItemGroup(required, len_field_iid, contents) ==
    [required |-> required, kind |-> "group", iid |-> len_field_iid, items |-> contents]
\* Mutant: a component item is made an item of kind Field.
LayoutItemComponentAsField(required, iid) ==
    [required |-> required, kind |-> "field", iid |-> iid, items |-> <<>>]
LayoutItemComponent(required, iid) ==
    [required |-> required, kind |-> "component", iid |-> iid, items |-> <<>>]

(***************************************************************************)
(* Fix::fields_that_start_groups: the names of the fields that introduce a *)
(* group anywhere in the header, the trailer, a component or a message.    *)
(* The code walks a work list, popping from the end.                       *)
(***************************************************************************)
RECURSIVE ConcatItems(_)
ConcatItems(records) ==
    IF records = <<>> THEN <<>> ELSE Head(records).items \o ConcatItems(Tail(records))

RECURSIVE GroupNames(_, _)
GroupNames(items, fields) ==
    IF items = <<>> THEN fields
    ELSE LET item == items[Len(items)]
             rest == SubSeq(items, 1, Len(items) - 1)
         IN IF item.kind = "group"
            THEN GroupNames(rest \o item.items, Append(fields, item.name))
            ELSE GroupNames(rest, fields)

fields_that_start_groups(fix) ==
    GroupNames(fix.header \o fix.trailer \o ConcatItems(fix.components)
                   \o ConcatItems(fix.messages), <<>>)

Contains(vec, x) == \E k \in DOMAIN vec : vec[k] = x

(***************************************************************************)
(* Fix::topologically_sort_components, first half: the adjacency list, a   *)
(* hash map from a component's name to the component and the names of the  *)
(* components its items refer to (groups are searched, fields are not).    *)
(***************************************************************************)
\* Mutant: groups are not searched for component references.
RECURSIVE DependenciesTopLevelOnly(_, _)
DependenciesTopLevelOnly(items, dependencies) ==
    IF items = <<>> THEN dependencies
    ELSE LET item == items[Len(items)]
             rest == SubSeq(items, 1, Len(items) - 1)
         IN IF item.kind = "component"
            THEN DependenciesTopLevelOnly(rest, Append(dependencies, item.name))
            ELSE DependenciesTopLevelOnly(rest, dependencies)

RECURSIVE Dependencies(_, _)
Dependencies(items, dependencies) ==
    IF items = <<>> THEN dependencies
    ELSE LET item == items[Len(items)]
             rest == SubSeq(items, 1, Len(items) - 1)
         IN CASE item.kind = "component" -> Dependencies(rest, Append(dependencies, item.name))
              [] item.kind = "group" -> Dependencies(rest \o item.items, dependencies)
              [] OTHER -> Dependencies(rest, dependencies)

\* collect() into a map: of two components with one name the later one stays.
LastNamed(cs, name) ==
    cs[CHOOSE k \in DOMAIN cs :
          /\ cs[k].name = name
          /\ \A j \in DOMAIN cs : cs[j].name = name => j <= k]

\* Mutant: the map keeps the components without their items.
adj_listStripped(cs) ==
    [name \in {cs[k].name : k \in DOMAIN cs} |->
        LET c == LastNamed(cs, name)
        IN [component |-> [c EXCEPT !.items = <<>>],
            dependencies |-> Dependencies(c.items, <<>>)]]

adj_list(cs) ==
    [name \in {cs[k].name : k \in DOMAIN cs} |->
        LET c == LastNamed(cs, name)
        IN [component |-> c, dependencies |-> Dependencies(c.items, <<>>)]]

(***************************************************************************)
(* convert_items: the layout of a raw item list, resolved against the      *)
(* dictionary built so far. An unwrap() of a missing entity panics; the    *)
(* result then names the lookup that failed.                               *)
(***************************************************************************)
Converted(layout) == [ok |-> TRUE, layout |-> layout, at |-> "none"]
Panicked(site) == [ok |-> FALSE, layout |-> <<>>, at |-> site]

RECURSIVE convert_items(_, _)
convert_items(d, items) ==
    IF items = <<>> THEN Converted(<<>>)
    ELSE LET item == Head(items)
             required == (item.required = "Y")
             one == CASE item.kind = "field" ->
                           LET field == field_by_name(d, item.name)
                           IN IF field.some
                              THEN Converted(<<LayoutItemField(required, field.v)>>)
                              ELSE Panicked("field_by_name")
                      [] item.kind = "group" ->
                           LET first_field == field_by_name(d, item.name)
                           IN IF ~first_field.some
                              THEN Panicked("group_field_by_name")
                              ELSE LET contents == convert_items(d, item.items)
                                   IN IF contents.ok
                                      THEN Converted(<<LayoutItemGroup(required, first_field.v,
                                                                       contents.layout)>>)
                                      ELSE contents
                      [] OTHER ->
                           LET component == component_by_name(d, item.name)
                           IN IF component.some
                              THEN Converted(<<LayoutItemComponent(required, component.v)>>)
                              ELSE Panicked("component_by_name")
         IN IF ~one.ok THEN one
            ELSE LET rest == convert_items(d, Tail(items))
                 IN IF rest.ok THEN Converted(one.layout \o rest.layout) ELSE rest

(***************************************************************************)
(* The documents the import is run on. Each family varies one part of the  *)
(* document over a bounded set and keeps the rest fixed.                   *)
(***************************************************************************)
RECURSIVE Nest(_, _)
Nest(depth, item) ==
    IF depth = 0 THEN item ELSE GroupItem("NoG", "N", <<Nest(depth - 1, item)>>)

SomeValues ==
    {SomeSeq(<<RawFieldEnum("N", "NEW")>>),
     SomeSeq(<<RawFieldEnum("N", "NEW"), RawFieldEnum("C", "CANCEL")>>)}

BaseFields ==
    <<RawField(1, "F1", "STRING", NoneSeq), RawField(2, "NoG", "NUMINGROUP", NoneSeq)>>

BaseMessages == <<RawMessage("Heartbeat", "0", <<FieldItem("F1", "N")>>)>>

\* Field lists: tags, names and datatypes may repeat.
FieldRecs ==
    {RawField(t, n, ty, vs) :
        t \in {1, 2}, n \in {"F1", "NoG"}, ty \in {"STRING", "INT"},
        vs \in {NoneSeq, SomeSeq(<<RawFieldEnum("N", "NEW"), RawFieldEnum("C", "CANCEL")>>)}}

FieldDocs ==
    {Fix(fs, <<>>, <<>>, h, <<>>) :
        fs \in SeqsUpTo(FieldRecs, MaxFields),
        h \in {<<>>, <<GroupItem("NoG", "Y", <<FieldItem("F1", "N")>>)>>}}

\* A group counter with or without enumerated values, used in each section.
GroupDocs ==
    UNION {
        LET fs == <<RawField(1, "F1", "STRING", v1), RawField(2, "NoG", "NUMINGROUP", v2)>>
            g == <<Nest(depth, GroupItem(n, "Y", <<FieldItem("F1", "Y")>>))>>
        IN {Fix(fs, <<>>, <<>>, g, <<>>),
            Fix(fs, <<>>, <<>>, <<>>, g),
            Fix(fs, <<RawComponent("A", g)>>, <<>>, <<>>, <<>>),
            Fix(fs, <<>>, <<RawMessage("Heartbeat", "0", g)>>, <<>>, <<>>)} :
        v1 \in {NoneSeq} \cup SomeValues, v2 \in {NoneSeq} \cup SomeValues,
        n \in {"F1", "NoG"}, depth \in 0..MaxDepth}

\* Component graphs: the first k of the names A, B, C are defined, each
\* refers to up to MaxRefs of the three names, directly or inside groups.
CompNameSeq == <<"A", "B", "C">>

RefSeqs == {s \in SeqsUpTo(Range(CompNameSeq), MaxRefs) : IsInjective(s)}

GraphComponents(bodies, depth) ==
    [j \in DOMAIN bodies |->
        RawComponent(CompNameSeq[j],
                     [r \in DOMAIN bodies[j] |->
                         Nest(depth, ComponentItem(bodies[j][r], "Y"))])]

GraphDocs ==
    {Fix(BaseFields, GraphComponents(bodies, depth), BaseMessages,
         <<FieldItem("F1", "Y")>>, <<FieldItem("F1", "N")>>) :
        bodies \in SeqsUpTo(RefSeqs, Len(CompNameSeq)), depth \in {0, MaxDepth}}

\* Component lists in which a name is defined twice.
OneRef == {<<>>} \cup {<<ComponentItem(n, "Y")>> : n \in Range(CompNameSeq)}

DupDocs ==
    {Fix(BaseFields, <<RawComponent("A", b1), RawComponent("B", b2), RawComponent("A", b3)>>,
         BaseMessages, <<>>, <<>>) :
        b1 \in OneRef, b2 \in OneRef, b3 \in OneRef}

\* Components that name a component more than once, also in a cycle.
RepeatRefs ==
    {<<>>, <<"B", "B">>, <<"A", "B", "A">>, <<"C", "A">>, <<"B", "C", "B">>}

RepeatDocs ==
    {Fix(BaseFields, GraphComponents(<<b1, b2, b3>>, depth), BaseMessages, <<>>, <<>>) :
        b1 \in RepeatRefs, b2 \in RepeatRefs, b3 \in RepeatRefs, depth \in {0, 1}}

\* Item lists: fields and components that exist (F1, NoG, A) and that do
\* not (FX, Z), bare or inside MaxDepth nested groups.
Leaves ==
    {FieldItem("F1", "Y"), FieldItem("F1", "N"), FieldItem("FX", "N"),
     ComponentItem("A", "Y"), ComponentItem("Z", "N")}

Items ==
    {Nest(depth, leaf) : depth \in {0, MaxDepth}, leaf \in Leaves}
        \cup {GroupItem("NoG", "Y", <<>>),
              GroupItem("FX", "Y", <<FieldItem("F1", "Y")>>),
              GroupItem("NoG", "Y", <<FieldItem("F1", "Y"), ComponentItem("A", "N")>>)}

LayoutDocs ==
    {Fix(BaseFields, <<RawComponent("A", <<FieldItem("F1", "Y")>>)>>, BaseMessages, h, t) :
        h \in SeqsUpTo(Items, MaxItems),
        t \in {<<>>, <<ComponentItem("A", "Y"), FieldItem("FX", "Y")>>}}

MsgRecs ==
    {RawMessage(n, mt, its) :
        n \in {"Heartbeat", "Logon"}, mt \in {"0", "A"},
        its \in {<<>>, <<FieldItem("F1", "N")>>, <<FieldItem("FX", "Y")>>,
                 <<GroupItem("NoG", "Y", <<FieldItem("F1", "Y")>>), ComponentItem("A", "Y")>>}}

MessageDocs ==
    {Fix(BaseFields, <<RawComponent("A", <<FieldItem("F1", "Y")>>)>>, ms, <<>>, <<>>) :
        ms \in SeqsUpTo(MsgRecs, MaxMessages)}

\* The required attribute is one character, whatever it is.
Markers == {"Y", "N", "y", "X"}

RequiredDocs ==
    {Fix(BaseFields, <<RawComponent("A", <<FieldItem("F1", r2)>>)>>, BaseMessages,
         <<item>>, <<ComponentItem("A", r2)>>) :
        item \in UNION {{FieldItem("F1", r1),
                         GroupItem("NoG", r1, <<FieldItem("F1", r2)>>),
                         ComponentItem("A", r1)} : r1 \in Markers, r2 \in Markers},
        r2 \in Markers}

\* Texts that are not well-formed or lack attributes or sections of the
\* root element; the content of a part that is missing is never read.
MalformedDocs ==
    {[Fix(BaseFields, <<>>, BaseMessages, <<FieldItem("F1", "Y")>>, <<>>)
         EXCEPT !.well_formed = w, !.missing = m] :
        w \in BOOLEAN,
        m \in {x \in SUBSET (Attributes \cup Sections) : Cardinality(x) <= MaxMissing}}

\* Root attributes: the service pack is a decimal numeral.
ServicePacks == {"0", "1", "2"}

VersionDocs ==
    {[Fix(BaseFields, <<>>, BaseMessages, <<>>, <<>>)
         EXCEPT !.type = ty, !.major = ma, !.minor = mi, !.servicepack = sp] :
        ty \in {"FIX", "FIXT"}, ma \in {"4", "5"}, mi \in {"0", "1"}, sp \in ServicePacks}

(***************************************************************************)
(* parse_quickfix_xml, one step per loop iteration.                        *)
(***************************************************************************)
\* Dictionary::empty
empty == DictionaryNew("FIX.???")

\* The callers of the import: the readers of a returned Dictionary, each
\* with the last query it made and the answer it got, the Dictionary of a
\* first import whose export is being imported again, and the result of an
\* earlier import of the same text.
Readers == 1..NumReaders
NoObservation == [some |-> FALSE, query |-> "none", answer |-> <<>>]
NoFirst == [some |-> FALSE, v |-> empty]
NoPrevious == [some |-> FALSE, outcome |-> "running", panic_at |-> "none", dict |-> empty]

\* A caller that fills a builder by hand keeps the ids the adds returned, in
\* the order of the calls.
NoAdds == <<>>

\* Before Dictionary::new has run, dict stands for no Dictionary; the model
\* gives it the value of the empty one.
InitOn(documents) ==
    /\ doc \in documents
    /\ first = NoFirst
    /\ previous = NoPrevious
    /\ observed = [r \in Readers |-> NoObservation]
    /\ pc = "from_str"
    /\ i = 1
    /\ dict = empty
    /\ components = doc.components
    /\ queue = <<>>
    /\ visiting = {}
    /\ visited = {}
    /\ sorted = <<>>
    /\ outcome = "running"
    /\ panic_at = "none"
    /\ builder = DictionaryBuilderNew("FIX.???")
    /\ added = NoAdds

Init ==
    \/ InitOn(GroupDocs)
    \/ InitOn(FieldDocs)
    \/ InitOn(GraphDocs)
    \/ InitOn(DupDocs)
    \/ InitOn(LayoutDocs)
    \/ InitOn(MessageDocs)
    \/ InitOn(MalformedDocs)
    \/ InitOn(VersionDocs)
    \/ InitOn(RequiredDocs)
    \/ InitOn(RepeatDocs)

\* The document as the code holds it: the sort replaces the component list.
fix == [doc EXCEPT !.components = components]

sortVars == <<queue, visiting, visited, sorted>>

callerVars == <<doc, first, previous, observed, builder, added>>

Panic(site) ==
    /\ outcome' = "panic"
    /\ panic_at' = site
    /\ pc' = "panicked"
    /\ UNCHANGED <<callerVars, i, dict, components, sortVars>>

\* quick_xml::de::from_str into struct Fix: every attribute and section is
\* mandatory, so the result is an Err unless the text is well-formed and
\* has them all.
from_str(text) == [ok |-> text.well_formed /\ text.missing = {}]

\* Mutant: the service pack is shown whatever it is.
versionWithServicePack(f) ==
    f.type \o "." \o f.major \o "." \o f.minor \o "-SP" \o f.servicepack

\* Fix::version
version(f) ==
    f.type \o "." \o f.major \o "." \o f.minor
        \o (IF f.servicepack # "0" THEN "-SP" \o f.servicepack ELSE "")

\* let mut fix: Fix = from_str(xml_document).unwrap();
\* let mut dict = Dictionary::new(&fix.version());
Deserialize ==
    /\ pc = "from_str"
    /\ IF ~from_str(doc).ok
       THEN Panic("from_str")
       ELSE /\ dict' = DictionaryNew(version(fix))
            /\ pc' = "datatypes"
            /\ UNCHANGED <<callerVars, i, components, sortVars, outcome, panic_at>>

\* Mutant: the datatype is registered without asking whether it is known.
EnsureDatatypeAlways(d, f) == add_datatype(d, DatatypeNew(f.datatype))

\* Mutant: a datatype is registered only while no datatype is known.
EnsureDatatypeFirstOnly(d, f) ==
    IF d.data_types = <<>> THEN add_datatype(d, DatatypeNew(f.datatype)) ELSE d

\* for f in &fix.fields.fields: register the datatype unless it is known.
EnsureDatatype(d, f) ==
    IF ~datatype_by_name(d, f.datatype).some
    THEN add_datatype(d, DatatypeNew(f.datatype))
    ELSE d

ImportDatatype ==
    /\ pc = "datatypes"
    /\ IF i > Len(fix.fields)
       THEN /\ pc' = "fields"
            /\ i' = 1
            /\ UNCHANGED dict
       ELSE /\ dict' = EnsureDatatype(dict, fix.fields[i])
            /\ i' = i + 1
            /\ UNCHANGED pc
    /\ UNCHANGED <<callerVars, components, sortVars, outcome, panic_at>>

\* Mutant: the restriction list is created before the values are looked at.
WithValuesAlwaysSome(field, f, starts_groups) ==
    [field EXCEPT
        !.value_restrictions =
            SomeSeq([k \in DOMAIN f.values.v |->
                        FieldEnumData(f.values.v[k].name, f.values.v[k].description)]),
        !.is_group = IF f.values.some /\ Contains(starts_groups, f.name) THEN TRUE ELSE @]

\* if let Some(values) = &f.values: the enums in order, and the group flag.
WithValues(field, f, starts_groups) ==
    IF f.values.some
    THEN [field EXCEPT
            !.value_restrictions =
                SomeSeq([k \in DOMAIN f.values.v |->
                            FieldEnumData(f.values.v[k].name, f.values.v[k].description)]),
            !.is_group = IF Contains(starts_groups, f.name) THEN TRUE ELSE @]
    ELSE field

ImportField ==
    /\ pc = "fields"
    /\ IF i > Len(fix.fields)
       THEN /\ pc' = "sort"
            /\ i' = 1
            /\ UNCHANGED <<callerVars, dict, components, sortVars, outcome, panic_at>>
       ELSE LET f == fix.fields[i]
                datatype == datatype_by_name(dict, f.datatype)
            IN IF ~datatype.some
               THEN Panic("datatype_by_name")
               ELSE /\ dict' = add_field(dict,
                                   WithValues(FieldNew(f.name, f.number, datatype.v), f,
                                              fields_that_start_groups(fix)))
                    /\ i' = i + 1
                    /\ UNCHANGED <<callerVars, pc, components, sortVars, outcome, panic_at>>

(***************************************************************************)
(* Fix::topologically_sort_components, second half: the work list. The     *)
(* queue is a stack; a name is pushed back below its dependencies when it  *)
(* is expanded and emitted when it is popped the second time.              *)
(***************************************************************************)
\* Mutant: the work list is filled by iterating over the hash map, whose
\* order is not fixed.
TopologicalSortBeginAnyOrder ==
    /\ pc = "sort"
    /\ queue' \in {q \in [1..Cardinality(DOMAIN adj_list(components)) ->
                              DOMAIN adj_list(components)] : IsInjective(q)}
    /\ visiting' = {}
    /\ visited' = {}
    /\ sorted' = <<>>
    /\ pc' = "sort_loop"
    /\ UNCHANGED <<callerVars, i, dict, components, outcome, panic_at>>

TopologicalSortBegin ==
    /\ pc = "sort"
    /\ queue' = [k \in DOMAIN components |-> components[k].name]
    /\ visiting' = {}
    /\ visited' = {}
    /\ sorted' = <<>>
    /\ pc' = "sort_loop"
    /\ UNCHANGED <<callerVars, i, dict, components, outcome, panic_at>>

\* Mutant: an emitted name is not remembered as visited.
TopologicalSortStepForgets ==
    /\ pc = "sort_loop"
    /\ IF queue = <<>>
       THEN /\ components' = sorted
            /\ pc' = "components"
            /\ i' = 1
            /\ UNCHANGED <<callerVars, dict, sortVars, outcome, panic_at>>
       ELSE LET component_name == queue[Len(queue)]
                rest == SubSeq(queue, 1, Len(queue) - 1)
                adj == adj_list(components)
            IN IF component_name \in visiting
               THEN /\ sorted' = Append(sorted, adj[component_name].component)
                    /\ visiting' = visiting \ {component_name}
                    /\ queue' = rest
                    /\ UNCHANGED <<callerVars, pc, i, dict, components, visited, outcome,
                                   panic_at>>
               ELSE IF component_name \notin visited
                    THEN IF component_name \notin DOMAIN adj
                         THEN Panic("adj_list")
                         ELSE /\ visiting' = visiting \cup {component_name}
                              /\ queue' = (rest \o <<component_name>>)
                                              \o adj[component_name].dependencies
                              /\ UNCHANGED <<callerVars, pc, i, dict, components, visited,
                                             sorted, outcome, panic_at>>
                    ELSE /\ queue' = rest
                         /\ UNCHANGED <<callerVars, pc, i, dict, components, visiting,
                                        visited, sorted, outcome, panic_at>>

TopologicalSortStep ==
    /\ pc = "sort_loop"
    /\ IF queue = <<>>
       THEN /\ components' = sorted
            /\ pc' = "components"
            /\ i' = 1
            /\ UNCHANGED <<callerVars, dict, sortVars, outcome, panic_at>>
       ELSE LET component_name == queue[Len(queue)]
                rest == SubSeq(queue, 1, Len(queue) - 1)
                adj == adj_list(components)
            IN IF component_name \in visiting
               THEN /\ sorted' = Append(sorted, adj[component_name].component)
                    /\ visiting' = visiting \ {component_name}
                    /\ visited' = visited \cup {component_name}
                    /\ queue' = rest
                    /\ UNCHANGED <<callerVars, pc, i, dict, components, outcome, panic_at>>
               ELSE IF component_name \notin visited
                    THEN IF component_name \notin DOMAIN adj
                         THEN Panic("adj_list")
                         ELSE /\ visiting' = visiting \cup {component_name}
                              /\ queue' = (rest \o <<component_name>>)
                                              \o adj[component_name].dependencies
                              /\ UNCHANGED <<callerVars, pc, i, dict, components, visited, sorted,
                                             outcome, panic_at>>
                    ELSE /\ queue' = rest
                         /\ UNCHANGED <<callerVars, pc, i, dict, components, visiting, visited,
                                        sorted, outcome, panic_at>>

(***************************************************************************)
(* The components in sorted order, the messages, the header, the trailer.  *)
(***************************************************************************)
\* Mutant: the converted layout is dropped.
WithLayoutDropped(component, layout) == component

WithLayout(component, layout) == [component EXCEPT !.layout_items = layout]

ImportComponent ==
    /\ pc = "components"
    /\ IF i > Len(fix.components)
       THEN /\ pc' = "messages"
            /\ i' = 1
            /\ UNCHANGED <<callerVars, dict, components, sortVars, outcome, panic_at>>
       ELSE LET c == fix.components[i]
                converted == convert_items(dict, c.items)
            IN IF ~converted.ok
               THEN Panic(converted.at)
               ELSE /\ dict' = add_component(dict,
                                   WithLayout(ComponentNew(c.name), converted.layout))
                    /\ i' = i + 1
                    /\ UNCHANGED <<callerVars, pc, components, sortVars, outcome, panic_at>>

ImportMessage ==
    /\ pc = "messages"
    /\ IF i > Len(fix.messages)
       THEN /\ pc' = "header"
            /\ i' = 1
            /\ UNCHANGED dict
       ELSE LET m == fix.messages[i]
            IN /\ dict' = add_message(dict, MessageNew(m.msgtype, m.name))
               /\ i' = i + 1
               /\ UNCHANGED pc
    /\ UNCHANGED <<callerVars, components, sortVars, outcome, panic_at>>

ImportHeader ==
    /\ pc = "header"
    /\ LET converted == convert_items(dict, fix.header)
       IN IF ~converted.ok
          THEN Panic(converted.at)
          ELSE /\ dict' = add_component(dict,
                              WithLayout(ComponentNew("StandardHeader"), converted.layout))
               /\ pc' = "trailer"
               /\ UNCHANGED <<callerVars, i, components, sortVars, outcome, panic_at>>

\* The trailer is the last step: Ok(dict) is returned.
ImportTrailer ==
    /\ pc = "trailer"
    /\ LET converted == convert_items(dict, fix.trailer)
       IN IF ~converted.ok
          THEN Panic(converted.at)
          ELSE /\ dict' = add_component(dict,
                              WithLayout(ComponentNew("StandardTrailer"), converted.layout))
               /\ pc' = "done"
               /\ outcome' = "ok"
               /\ UNCHANGED <<callerVars, i, components, sortVars, panic_at>>

(***************************************************************************)
(* dictionary_to_quickfix_xml and the import of its text. The element fix  *)
(* with its attributes is created but never written, and so is every       *)
(* element write_layout_item creates; the text consists of the elements    *)
(* header, messages (one empty message element per message) and trailer.   *)
(***************************************************************************)
write_layout_item(item) == <<>>

RECURSIVE WriteItems(_)
WriteItems(layout) ==
    IF layout = <<>> THEN <<>>
    ELSE write_layout_item(Head(layout)) \o WriteItems(Tail(layout))

dictionary_to_quickfix_xml(d) ==
    LET std_header == Get(d.components, component_by_name(d, "StandardHeader").v)
        std_trailer == Get(d.components, component_by_name(d, "StandardTrailer").v)
    IN [well_formed |-> FALSE,
        missing |-> Attributes \cup {"components", "fields"},
        type |-> "", major |-> "", minor |-> "", servicepack |-> "",
        fields |-> <<>>,
        components |-> <<>>,
        messages |-> [k \in DOMAIN d.messages |->
                         RawMessage(d.messages[k].name, d.messages[k].msg_type,
                                    WriteItems(d.messages[k].layout_items))],
        header |-> WriteItems(std_header.layout_items),
        trailer |-> WriteItems(std_trailer.layout_items)]

\* The caller exports the Dictionary it got and imports the text.
Export ==
    /\ pc = "done"
    /\ ~first.some
    /\ first' = [some |-> TRUE, v |-> dict]
    /\ doc' = dictionary_to_quickfix_xml(dict)
    /\ components' = doc'.components
    /\ dict' = empty
    /\ pc' = "from_str"
    /\ i' = 1
    /\ queue' = <<>>
    /\ visiting' = {}
    /\ visited' = {}
    /\ sorted' = <<>>
    /\ outcome' = "running"
    /\ previous' = NoPrevious
    /\ UNCHANGED <<observed, panic_at, builder, added>>

(***************************************************************************)
(* The readers of a returned Dictionary. Every lookup and every iterator   *)
(* takes &self; a reader makes one query at a time, in any interleaving    *)
(* with the other readers.                                                 *)
(***************************************************************************)
Queries ==
    {"field_by_tag", "field_by_name", "message_by_name", "message_by_msgtype",
     "component_by_name", "datatype_by_name", "abbreviation_for",
     "iter_datatypes", "iter_messages", "iter_fields", "iter_components"}

Answer(d, query) ==
    CASE query = "field_by_tag" -> <<field_by_tag(d, 1)>>
      [] query = "field_by_name" -> <<field_by_name(d, "F1")>>
      [] query = "message_by_name" -> <<message_by_name(d, "Heartbeat")>>
      [] query = "message_by_msgtype" -> <<message_by_msgtype(d, "0")>>
      [] query = "component_by_name" -> <<component_by_name(d, "A")>>
      [] query = "datatype_by_name" -> <<datatype_by_name(d, "STRING")>>
      [] query = "abbreviation_for" -> <<abbreviation_for(d, "F1")>>
      [] query = "iter_datatypes" -> iter_datatypes(d)
      [] query = "iter_messages" -> iter_messages(d)
      [] query = "iter_fields" -> iter_fields(d)
      [] OTHER -> iter_components(d)

\* Mutant: a query leaves a trace in the Dictionary it reads.
ReadAndRegister(r, query) ==
    /\ pc = "done"
    /\ observed' = [observed EXCEPT ![r] =
                        [some |-> TRUE, query |-> query, answer |-> Answer(dict, query)]]
    /\ dict' = add_datatype(dict, DatatypeNew(query))
    /\ UNCHANGED <<doc, first, previous, pc, i, components, sortVars, outcome, panic_at,
                   builder, added>>

Read(r, query) ==
    /\ pc = "done"
    /\ observed' = [observed EXCEPT ![r] =
                        [some |-> TRUE, query |-> query, answer |-> Answer(dict, query)]]
    /\ UNCHANGED <<doc, first, previous, pc, i, dict, components, sortVars, outcome,
                   panic_at, builder, added>>

(***************************************************************************)
(* Message::group_info. layout_item_kind resolves the ids of an item in    *)
(* the Dictionary: fields[len_field_iid] and get(iid).unwrap() panic on an *)
(* id that is not there. find_map walks the top-level items and stops at   *)
(* the first for which the closure answers Some; items[0] panics on an     *)
(* empty Vec.                                                              *)
(***************************************************************************)
Completed(v) == [outcome |-> "ok", at |-> "none", v |-> v]
Failed(site) == [outcome |-> "panic", at |-> site, v |-> NoneId]

layout_item_kind(d, item) ==
    IF item.kind = "component"
    THEN [ok |-> item.iid < Len(d.components), kind |-> "component", tag |-> 0, items |-> <<>>]
    ELSE IF item.iid < Len(d.fields)
         THEN [ok |-> TRUE, kind |-> item.kind, tag |-> Get(d.fields, item.iid).tag,
               items |-> item.items]
         ELSE [ok |-> FALSE, kind |-> item.kind, tag |-> 0, items |-> <<>>]

RECURSIVE find_map_group(_, _, _)
find_map_group(d, layout, num_in_group_tag) ==
    IF layout = <<>> THEN Completed(NoneId)
    ELSE LET kind == layout_item_kind(d, Head(layout))
         IN IF ~kind.ok THEN Failed("layout_item_kind")
            ELSE IF kind.kind = "group" /\ kind.tag = num_in_group_tag
                 THEN IF kind.items = <<>> THEN Failed("items[0]")
                      ELSE LET f == layout_item_kind(d, kind.items[1])
                           IN IF ~f.ok THEN Failed("layout_item_kind")
                              ELSE IF f.kind = "field" THEN Completed(SomeId(f.tag))
                              ELSE find_map_group(d, Tail(layout), num_in_group_tag)
                 ELSE find_map_group(d, Tail(layout), num_in_group_tag)

group_info(d, message, num_in_group_tag) ==
    find_map_group(d, message.layout_items, num_in_group_tag)

\* A caller gives the Dictionary a message of its own, with a layout that
\* convert_items made in this Dictionary, as the import does for components.
UserMessage == MessageNew("U", "UserDefined")

AddMessage ==
    /\ pc = "done"
    /\ ~message_by_name(dict, UserMessage.name).some
    /\ \E c \in Range(dict.components) :
           dict' = add_message(dict, WithLayout(UserMessage, c.layout_items))
    /\ UNCHANGED <<doc, first, previous, observed, pc, i, components, sortVars, outcome,
                   panic_at, builder, added>>

\* A reader asks a message for the group of a counter tag. A panic unwinds
\* the reader and leaves the Dictionary as it was.
GroupTags == {1, 2, 3}

GroupInfo(r, m, tag) ==
    /\ pc = "done"
    /\ m \in DOMAIN dict.messages
    /\ observed' = [observed EXCEPT ![r] =
                        [some |-> TRUE, query |-> "group_info",
                         answer |-> <<dict.messages[m], tag,
                                      group_info(dict, dict.messages[m], tag)>>]]
    /\ UNCHANGED <<doc, first, previous, pc, i, dict, components, sortVars, outcome,
                   panic_at, builder, added>>

Next ==
    \/ Deserialize
    \/ ImportDatatype
    \/ ImportField
    \/ TopologicalSortBegin
    \/ TopologicalSortStep
    \/ ImportComponent
    \/ ImportMessage
    \/ ImportHeader
    \/ ImportTrailer
    \/ Export

Spec == Init /\ [][Next]_vars

\* The import of a document, run a second time on the same text.
Rerun ==
    /\ pc \in {"done", "panicked"}
    /\ ~previous.some
    /\ ~first.some
    /\ previous' = [some |-> TRUE, outcome |-> outcome, panic_at |-> panic_at, dict |-> dict]
    /\ pc' = "from_str"
    /\ i' = 1
    /\ dict' = empty
    /\ components' = doc.components
    /\ queue' = <<>>
    /\ visiting' = {}
    /\ visited' = {}
    /\ sorted' = <<>>
    /\ outcome' = "running"
    /\ panic_at' = "none"
    /\ UNCHANGED <<doc, first, observed, builder, added>>

InitRerun ==
    \/ InitOn(GraphDocs)
    \/ InitOn(DupDocs)

NextRerun ==
    \/ Next
    \/ Rerun

RerunSpec == InitRerun /\ [][NextRerun]_vars

\* The import of documents whose components refer to each other, with the
\* loop of the sort running on as long as its work list is not empty.
InitSort ==
    \/ InitOn(DupDocs)
    \/ InitOn(RepeatDocs)

SortSpec == InitSort /\ [][Next]_vars /\ WF_vars(TopologicalSortStep)

\* The import of a document followed by the queries of the readers.
InitRead ==
    \/ InitOn(VersionDocs)
    \/ InitOn(DupDocs)

NextRead ==
    \/ Next
    \/ \E r \in Readers, query \in Queries : Read(r, query)

ReadSpec == InitRead /\ [][NextRead]_vars

\* The import of a document with layouts, a message added by hand and the
\* readers asking the messages for their groups.
InitGroupInfo == InitOn(LayoutDocs)

NextGroupInfo ==
    \/ Next
    \/ AddMessage
    \/ \E r \in Readers, m \in 1..(MaxMessages + 1), tag \in GroupTags : GroupInfo(r, m, tag)

GroupInfoSpec == InitGroupInfo /\ [][NextGroupInfo]_vars

(***************************************************************************)
(* A caller filling the builders by hand: each step is one add, on the     *)
(* stand-alone builder of builder.rs or on the builder of mod.rs, whose    *)
(* collections and symbol table are those of the Dictionary it builds.     *)
(* The caller keeps the id every add returned. mod.rs returns the id it    *)
(* has just put in the symbol table under the entity's key.                *)
(***************************************************************************)
BuilderNames == {"A", "B"}
TotalAdds == Len(added)
Call(on, kind, id, entity) == [on |-> on, kind |-> kind, id |-> id, entity |-> entity]

importVars == <<doc, first, previous, observed, pc, i, components, sortVars, outcome, panic_at>>

BuilderAdd(kind, r, entity) ==
    /\ pc = "builder"
    /\ TotalAdds < MaxAdds
    /\ builder' = r.builder
    /\ added' = Append(added, Call("builder", kind, r.id, entity))
    /\ UNCHANGED <<importVars, dict>>

BuilderAddField ==
    \E name \in BuilderNames, tag \in 1..2 :
        LET field == FieldNew(name, tag, 0)
        IN BuilderAdd("field", Builder_add_field(builder, field), field)

BuilderAddMessage ==
    \E name \in BuilderNames :
        LET message == MessageNew(name, name)
        IN BuilderAdd("message", Builder_add_message(builder, message), message)

BuilderAddDatatype ==
    \E name \in BuilderNames :
        LET datatype == DatatypeNew(name)
        IN BuilderAdd("datatype", Builder_add_datatype(builder, datatype), datatype)

BuilderAddSection ==
    BuilderAdd("section", Builder_add_section(builder, Section), Section)

DictAdd(kind, d, key, entity) ==
    /\ pc = "builder"
    /\ TotalAdds < MaxAdds
    /\ dict' = d
    /\ added' = Append(added, Call("dict", kind, d.symbol_table[key], entity))
    /\ UNCHANGED <<importVars, builder>>

DictAddField ==
    \E name \in BuilderNames, tag \in 1..2 :
        LET field == FieldNew(name, tag, 0)
        IN DictAdd("field", add_field(dict, field), FieldByTag(tag), field)

DictAddMessage ==
    \E name \in BuilderNames :
        LET message == MessageNew(name, name)
        IN DictAdd("message", add_message(dict, message), MessageByMsgType(name), message)

DictAddComponent ==
    \E name \in BuilderNames :
        LET component == ComponentNew(name)
        IN DictAdd("component", add_component(dict, component), ComponentByName(name),
                   component)

InitBuilder ==
    /\ doc = Fix(<<>>, <<>>, <<>>, <<>>, <<>>)
    /\ first = NoFirst
    /\ previous = NoPrevious
    /\ observed = [r \in Readers |-> NoObservation]
    /\ pc = "builder"
    /\ i = 1
    /\ dict \in {DictionaryNew(version(doc)), empty}
    /\ components = <<>>
    /\ queue = <<>>
    /\ visiting = {}
    /\ visited = {}
    /\ sorted = <<>>
    /\ outcome = "running"
    /\ panic_at = "none"
    /\ builder \in {DictionaryBuilderNew(v) : v \in {version(doc), "FIX.???"}}
    /\ added = NoAdds

NextBuilder ==
    \/ BuilderAddField
    \/ BuilderAddMessage
    \/ BuilderAddDatatype
    \/ BuilderAddSection
    \/ DictAddField
    \/ DictAddMessage
    \/ DictAddComponent

BuilderSpec == InitBuilder /\ [][NextBuilder]_vars

(***************************************************************************)
(* Vocabulary of the properties.                                           *)
(***************************************************************************)
Returned == outcome = "ok"
Finished == pc \in {"done", "panicked"}
SortFinished == pc \in {"components", "messages", "header", "trailer", "done"}

\* Component::contains_field: a top-level item of kind Field with the tag.
contains_field(d, component, field) ==
    \E k \in DOMAIN component.layout_items :
        /\ component.layout_items[k].kind = "field"
        /\ Get(d.fields, component.layout_items[k].iid).tag = field.tag

\* Field::enums
enums(field) == field.value_restrictions

\* The component names an item list refers to, at any depth.
RECURSIVE ReferencedComponents(_)
ReferencedComponents(items) ==
    UNION {IF items[k].kind = "component" THEN {items[k].name}
           ELSE IF items[k].kind = "group" THEN ReferencedComponents(items[k].items)
           ELSE {} : k \in DOMAIN items}

\* The field names an item list uses as group counters, at any depth.
RECURSIVE GroupCounters(_)
GroupCounters(items) ==
    UNION {IF items[k].kind = "group"
           THEN {items[k].name} \cup GroupCounters(items[k].items)
           ELSE {} : k \in DOMAIN items}

ComponentNames(cs) == {cs[k].name : k \in DOMAIN cs}

\* The reference graph of a component list (the later definition of a name counts).
References(cs, name) == ReferencedComponents(LastNamed(cs, name).items)

RECURSIVE ReachableFrom(_, _)
ReachableFrom(cs, names) ==
    LET more == names \cup UNION {References(cs, n) : n \in names \cap ComponentNames(cs)}
    IN IF more = names THEN names ELSE ReachableFrom(cs, more)

Cyclic(cs) ==
    \E n \in ComponentNames(cs) : n \in ReachableFrom(cs, References(cs, n))

AllDefined(cs) ==
    \A n \in ComponentNames(cs) : References(cs, n) \subseteq ComponentNames(cs)

\* Every component a member of cs refers to stands strictly before it.
DependencyOrdered(cs) ==
    \A k \in DOMAIN cs : \A d \in ReferencedComponents(cs[k].items) :
        \E j \in 1..(k - 1) : cs[j].name = d

\* C1: whenever the sort has run on a component list whose references are
\* all defined and acyclic, every component stands strictly after the
\* components its layout refers to (directly or inside nested groups); and
\* every successfully imported document is such a list, its components
\* registered in that order, each after everything it refers to.
C1_DependencyOrder ==
    /\ (SortFinished /\ AllDefined(doc.components) /\ ~Cyclic(doc.components))
           => DependencyOrdered(components)
    /\ Returned =>
           /\ AllDefined(doc.components) /\ ~Cyclic(doc.components)
           /\ \A k \in DOMAIN components :
                 /\ dict.components[k].name = components[k].name
                 /\ \A d \in ReferencedComponents(components[k].items) :
                       \E j \in 1..(k - 1) : dict.components[j].name = d

C1_Witness ==
    /\ Returned
    /\ components # doc.components
    /\ \E k \in DOMAIN components :
          /\ components[k].items # <<>>
          /\ components[k].items[1].kind = "group"
          /\ Cardinality(ReferencedComponents(components[k].items)) = 2

\* C2: when the component reference graph (every reference naming a
\* defined component) has a cycle, the import ends with the outcome
\* CyclicDefinition.
C2_CycleReported ==
    (Finished /\ AllDefined(doc.components) /\ Cyclic(doc.components))
        => outcome = "CyclicDefinition"

\* C3: in a returned Dictionary every layout item of every component
\* (StandardHeader and StandardTrailer included) and of every message, at
\* any depth, holds the id of an element of the fields or the components.
RECURSIVE Resolves(_, _)
Resolves(d, layout) ==
    \A k \in DOMAIN layout :
        LET item == layout[k]
        IN CASE item.kind = "field" -> item.iid \in 0..(Len(d.fields) - 1)
             [] item.kind = "group" ->
                  /\ item.iid \in 0..(Len(d.fields) - 1)
                  /\ Resolves(d, item.items)
             [] OTHER -> item.iid \in 0..(Len(d.components) - 1)

C3_LayoutItemsResolve ==
    Returned =>
        /\ \A k \in DOMAIN dict.components : Resolves(dict, dict.components[k].layout_items)
        /\ \A k \in DOMAIN dict.messages : Resolves(dict, dict.messages[k].layout_items)

C3_Witness ==
    /\ Returned
    /\ \E k \in DOMAIN dict.components :
          LET layout == dict.components[k].layout_items
          IN /\ dict.components[k].name = "StandardHeader"
             /\ Len(layout) = 2
             /\ layout[1].kind = "group"
             /\ layout[1].items # <<>>
             /\ layout[1].items[1].kind = "group"
             /\ layout[2].kind = "component"

\* C4: when a lookup of a field, a group counter or a component named by a
\* layout item finds nothing, the import ends with the outcome
\* UnresolvedReference.
UnresolvedSites == {"field_by_name", "group_field_by_name", "component_by_name", "adj_list"}

C4_UnresolvedReferenceReturned ==
    panic_at \in UnresolvedSites => outcome = "UnresolvedReference"

\* C5: in a returned Dictionary the layout of every message is the
\* conversion of the item list of its record.
C5_MessageLayoutConverted ==
    Returned =>
        \A k \in DOMAIN doc.messages :
            LET converted == convert_items(dict, doc.messages[k].items)
            IN converted.ok => dict.messages[k].layout_items = converted.layout

\* C6: in a returned Dictionary a field is marked as group counter exactly
\* when its name is the counter of a group in the header, the trailer, a
\* component or a message, at any depth.
C6_GroupCounterMarked ==
    Returned =>
        \A k \in DOMAIN dict.fields :
            dict.fields[k].is_group <=>
                dict.fields[k].name \in
                    GroupCounters(doc.header \o doc.trailer \o ConcatItems(doc.components)
                                      \o ConcatItems(doc.messages))

\* C7: after a successful import there is one field per field record, and
\* for every record the lookups by its tag and by its name give the same
\* field, which has that tag and that name.
C7_FieldLookups ==
    Returned =>
        /\ Len(dict.fields) = Len(doc.fields)
        /\ \A k \in DOMAIN doc.fields :
              LET by_tag == field_by_tag(dict, doc.fields[k].number)
                  by_name == field_by_name(dict, doc.fields[k].name)
              IN /\ by_tag.some /\ by_name.some
                 /\ by_tag.v = by_name.v
                 /\ Get(dict.fields, by_tag.v).tag = doc.fields[k].number
                 /\ Get(dict.fields, by_tag.v).name = doc.fields[k].name

\* C8: in a returned Dictionary no two fields share a tag or a name, no two
\* components share a name, no two messages share a name or a msg-type, and
\* every symbol-table entry is the id of an element of its own collection.
Unique(vec, Attr(_)) == \A a, b \in DOMAIN vec : Attr(vec[a]) = Attr(vec[b]) => a = b
TagOf(x) == x.tag
NameOf(x) == x.name
MsgTypeOf(x) == x.msg_type

CollectionOf(d, kind) ==
    CASE kind = "DatatypeByName" -> d.data_types
      [] kind \in {"FieldByTag", "FieldByName"} -> d.fields
      [] kind = "ComponentByName" -> d.components
      [] OTHER -> d.messages

C8_UniqueKeys ==
    Returned =>
        /\ Unique(dict.fields, TagOf) /\ Unique(dict.fields, NameOf)
        /\ Unique(dict.components, NameOf)
        /\ Unique(dict.messages, NameOf) /\ Unique(dict.messages, MsgTypeOf)
        /\ \A key \in DOMAIN dict.symbol_table :
              dict.symbol_table[key] \in 0..(Len(CollectionOf(dict, key.kind)) - 1)

\* C9: the datatype lookup of the field import never fails, and in a
\* returned Dictionary every field holds the id of a datatype of the
\* Dictionary, which has the name the field's record gives and is found
\* under that name.
C9_DatatypeResolves ==
    /\ panic_at # "datatype_by_name"
    /\ Returned =>
          \A k \in DOMAIN dict.fields :
              LET iid == dict.fields[k].data_type_iid
              IN /\ iid \in 0..(Len(dict.data_types) - 1)
                 /\ Get(dict.data_types, iid).name = doc.fields[k].datatype
                 /\ datatype_by_name(dict, Get(dict.data_types, iid).name).some

C9_Witness ==
    /\ Returned
    /\ Len(dict.fields) = 2
    /\ dict.fields[1].data_type_iid = 0
    /\ dict.fields[2].data_type_iid = 1
    /\ dict.fields[1].name # dict.fields[2].name
    /\ dict.fields[1].tag # dict.fields[2].tag

\* C10: in a returned Dictionary a field whose record lists values has
\* exactly those (value, description) pairs, in the record's order, as its
\* enums; a field whose record lists none has no enums at all.
C10_Enums ==
    Returned =>
        \A k \in DOMAIN dict.fields :
            LET values == doc.fields[k].values
                e == enums(dict.fields[k])
            IN IF values.some
               THEN /\ e.some
                    /\ Len(e.v) = Len(values.v)
                    /\ \A j \in DOMAIN values.v :
                          /\ e.v[j].value = values.v[j].name
                          /\ e.v[j].description = values.v[j].description
               ELSE ~e.some

C10_Witness ==
    /\ Returned
    /\ Len(dict.fields) = 2
    /\ ~enums(dict.fields[1]).some
    /\ enums(dict.fields[2]).some
    /\ Len(enums(dict.fields[2]).v) = 2
    /\ enums(dict.fields[2]).v[1].value # enums(dict.fields[2]).v[2].value

\* C11: importing a text that is not well-formed, or that lacks one of the
\* sections fields, messages, components, header, trailer or one of the
\* root attributes, ends with the outcome MalformedInput, and no Dictionary
\* has been created.
Malformed(text) == ~text.well_formed \/ text.missing # {}

C11_MalformedInputReturned ==
    (Malformed(doc) /\ pc # "from_str") => (outcome = "MalformedInput" /\ dict = empty)

\* C12: the import is fail-fast. When a step has failed, the import has
\* ended with an error outcome and the caller has no Dictionary; and a
\* Dictionary is returned only when every step has run to its end: one
\* field per field record, one component per sorted component plus the
\* header and the trailer, one message per message record.
ErrorOutcomes == {"MalformedInput", "UnresolvedReference", "CyclicDefinition", "DuplicateKey"}

C12_FailFast ==
    /\ pc = "panicked" => outcome \in ErrorOutcomes
    /\ outcome \in ErrorOutcomes => pc = "panicked"
    /\ Returned =>
          /\ pc = "done"
          /\ Len(dict.fields) = Len(doc.fields)
          /\ Len(dict.components) = Len(components) + 2
          /\ Len(dict.messages) = Len(doc.messages)

\* C13: every returned Dictionary has components named StandardHeader and
\* StandardTrailer: component_by_name finds them, and their layouts are the
\* conversions of the header and the trailer item lists of the document.
Synthesized(name, items) ==
    LET found == component_by_name(dict, name)
        converted == convert_items(dict, items)
    IN /\ found.some
       /\ found.v \in 0..(Len(dict.components) - 1)
       /\ Get(dict.components, found.v).name = name
       /\ converted.ok
       /\ Get(dict.components, found.v).layout_items = converted.layout

C13_StandardHeaderTrailer ==
    Returned =>
        /\ Synthesized("StandardHeader", doc.header)
        /\ Synthesized("StandardTrailer", doc.trailer)

C13_Witness ==
    /\ Returned
    /\ Len(doc.header) = 1 /\ Len(doc.trailer) = 1
    /\ component_by_name(dict, "StandardHeader").some
    /\ component_by_name(dict, "StandardTrailer").some
    /\ Get(dict.components, component_by_name(dict, "StandardHeader").v).layout_items
           = <<LayoutItemField(TRUE, 0)>>
    /\ Get(dict.components, component_by_name(dict, "StandardTrailer").v).layout_items
           = <<LayoutItemField(FALSE, 0)>>

\* C14: when a returned Dictionary is exported and the text imported again,
\* the second import returns a Dictionary with the same field tags and
\* names, the same message msg-types and names, and the same components and
\* layout shapes (item kinds, names, required flags, group nesting).
RECURSIVE LayoutShape(_, _)
LayoutShape(d, layout) ==
    [k \in DOMAIN layout |->
        LET item == layout[k]
        IN [kind |-> item.kind,
            name |-> IF item.kind = "component" THEN Get(d.components, item.iid).name
                     ELSE Get(d.fields, item.iid).name,
            required |-> item.required,
            items |-> LayoutShape(d, item.items)]]

Shape(d) ==
    [fields |-> {<<d.fields[k].tag, d.fields[k].name>> : k \in DOMAIN d.fields},
     messages |-> {<<d.messages[k].msg_type, d.messages[k].name,
                     LayoutShape(d, d.messages[k].layout_items)>> : k \in DOMAIN d.messages},
     components |-> {<<d.components[k].name,
                       LayoutShape(d, d.components[k].layout_items)>> :
                        k \in DOMAIN d.components}]

C14_RoundTrip ==
    (first.some /\ Finished) => (Returned /\ Shape(dict) = Shape(first.v))

\* C15: in a returned Dictionary, for every registered message with name n
\* and msg-type m, the lookup of n by name and the lookup of m by msg-type
\* give the same message, which has the name n and the msg-type m.
C15_MessageLookups ==
    Returned =>
        \A k \in DOMAIN dict.messages :
            LET by_name == message_by_name(dict, dict.messages[k].name)
                by_msgtype == message_by_msgtype(dict, dict.messages[k].msg_type)
            IN /\ by_name.some /\ by_msgtype.some
               /\ by_name.v = by_msgtype.v
               /\ Get(dict.messages, by_name.v).name = dict.messages[k].name
               /\ Get(dict.messages, by_name.v).msg_type = dict.messages[k].msg_type

\* C16: once the datatypes are collected, the datatype collection holds the
\* distinct datatype names of the field list, each once, in the order of
\* their first occurrence; and in a returned Dictionary the number of
\* datatypes is the number of distinct datatypes its fields use.
RECURSIVE FirstSeen(_, _)
FirstSeen(names, seen) ==
    IF names = <<>> THEN seen
    ELSE FirstSeen(Tail(names),
                   IF Contains(seen, Head(names)) THEN seen ELSE Append(seen, Head(names)))

DatatypesCollected ==
    pc \in {"fields", "sort", "sort_loop", "components", "messages", "header", "trailer", "done"}

C16_Datatypes ==
    /\ DatatypesCollected =>
          /\ [k \in DOMAIN dict.data_types |-> dict.data_types[k].name]
                 = FirstSeen([k \in DOMAIN doc.fields |-> doc.fields[k].datatype], <<>>)
          /\ Unique(dict.data_types, NameOf)
    /\ Returned =>
          Len(dict.data_types) =
              Cardinality({Get(dict.data_types, dict.fields[k].data_type_iid).name :
                              k \in DOMAIN dict.fields})

C16_Witness ==
    /\ Returned
    /\ Len(dict.fields) = 2
    /\ dict.fields[1].name # dict.fields[2].name
    /\ dict.fields[1].tag # dict.fields[2].tag
    /\ Len(dict.data_types) = 2
    /\ dict.data_types[1].name = "STRING"
    /\ dict.data_types[2].name = "INT"

\* C17: the version of a returned Dictionary is type.major.minor, followed
\* by -SP and the service pack exactly when the service-pack number is not
\* zero: FIX, 5, 0 gives "FIX.5.0" with service pack 0 and "FIX.5.0-SP1"
\* with service pack 1.
Numerals == <<"0", "1", "2", "3", "4", "5", "6", "7", "8", "9">>
NumberOf(numeral) == (CHOOSE k \in DOMAIN Numerals : Numerals[k] = numeral) - 1

C17_Version ==
    Returned =>
        /\ dict.version =
              doc.type \o "." \o doc.major \o "." \o doc.minor
                  \o (IF NumberOf(doc.servicepack) # 0 THEN "-SP" \o doc.servicepack ELSE "")
        /\ (doc.type = "FIX" /\ doc.major = "5" /\ doc.minor = "0") =>
              /\ NumberOf(doc.servicepack) = 0 => dict.version = "FIX.5.0"
              /\ NumberOf(doc.servicepack) = 1 => dict.version = "FIX.5.0-SP1"

C17_Witness ==
    /\ Returned
    /\ doc.servicepack = "1"
    /\ dict.version = "FIX.5.0-SP1"

\* C18: iterating over a returned Dictionary gives the fields and the
\* messages in the order of their records, the datatypes in the order in
\* which the field list first names them, and the components in the order
\* the sort has computed, followed by StandardHeader and StandardTrailer.
FirstIndex(names, name) ==
    CHOOSE k \in DOMAIN names :
        names[k] = name /\ \A j \in 1..(k - 1) : names[j] # name

ProbeNames == {"F1", "FX", "A", "B", "Heartbeat", "Logon", "0", "STRING", "INT"}
ProbeTags == {1, 3}

Registered(vec, Attr(_)) == {Attr(vec[k]) : k \in DOMAIN vec}
AbbreviationOf(x) == x.abbreviation

C19_AbsentNotError ==
    LET tags == Registered(dict.fields, TagOf)
        fields == Registered(dict.fields, NameOf)
        messages == Registered(dict.messages, NameOf)
        msgtypes == Registered(dict.messages, MsgTypeOf)
        comps == Registered(dict.components, NameOf)
        datatypes == Registered(dict.data_types, NameOf)
        abbreviations == Registered(dict.abbreviations, AbbreviationOf)
    IN /\ \A tag \in ProbeTags \ tags : field_by_tag(dict, tag) = NoneId
       /\ \A name \in ProbeNames \ fields : field_by_name(dict, name) = NoneId
       /\ \A name \in ProbeNames \ messages : message_by_name(dict, name) = NoneId
       /\ \A name \in ProbeNames \ msgtypes : message_by_msgtype(dict, name) = NoneId
       /\ \A name \in ProbeNames \ comps : component_by_name(dict, name) = NoneId
       /\ \A name \in ProbeNames \ datatypes : datatype_by_name(dict, name) = NoneId
       /\ \A name \in ProbeNames \ abbreviations : abbreviation_for(dict, name) = NoneId

C19_Witness ==
    /\ Returned
    /\ field_by_name(dict, "F1").some /\ field_by_name(dict, "FX") = NoneId
    /\ field_by_tag(dict, 1).some /\ field_by_tag(dict, 3) = NoneId
    /\ message_by_name(dict, "Heartbeat").some /\ message_by_name(dict, "Logon") = NoneId
    /\ message_by_msgtype(dict, "0").some /\ message_by_msgtype(dict, "A") = NoneId
    /\ component_by_name(dict, "A").some /\ component_by_name(dict, "B") = NoneId
    /\ datatype_by_name(dict, "STRING").some /\ datatype_by_name(dict, "INT") = NoneId
    /\ abbreviation_for(dict, "F1") = NoneId

\* C20: while a Dictionary is returned, what each reader has observed is
\* what its query gives on the returned Dictionary, whatever queries the
\* other readers have made in between: no lookup and no iteration has
\* changed a collection or the symbol table.
C20_ReadersAgree ==
    Returned =>
        \A r \in Readers :
            observed[r].some => observed[r].answer = Answer(dict, observed[r].query)

C20_Witness ==
    /\ Returned
    /\ observed[1].some /\ observed[2].some
    /\ observed[1].query = "iter_components"
    /\ observed[2].query = "component_by_name"
    /\ Len(observed[1].answer) = 4
    /\ observed[2].answer = <<SomeId(1)>>

\* C21: in a returned Dictionary, contains_field(component, field) is true
\* exactly when an item of kind Field with the field's tag occurs in the
\* component's layout, at the top level, inside a group at any depth, or in
\* the layout of a component the layout refers to.
RECURSIVE FieldTagsIn(_, _)
FieldTagsIn(d, layout) ==
    UNION {LET item == layout[k]
           IN CASE item.kind = "field" -> {Get(d.fields, item.iid).tag}
                [] item.kind = "group" -> FieldTagsIn(d, item.items)
                [] OTHER -> FieldTagsIn(d, Get(d.components, item.iid).layout_items) :
           k \in DOMAIN layout}

C21_ContainsField ==
    Returned =>
        \A c \in DOMAIN dict.components : \A f \in DOMAIN dict.fields :
            contains_field(dict, dict.components[c], dict.fields[f])
                <=> dict.fields[f].tag \in FieldTagsIn(dict, dict.components[c].layout_items)

\* C22: after the sort, two components of which neither reaches the other
\* through component references stand in the order of the input list; in
\* particular the sorted list of an input without component references is
\* the input list.
Position(cs, name) == CHOOSE k \in DOMAIN cs : cs[k].name = name

Independent(cs, a, b) ==
    /\ a # b
    /\ b \notin ReachableFrom(cs, References(cs, a))
    /\ a \notin ReachableFrom(cs, References(cs, b))

C22_SourceOrderKept ==
    (SortFinished /\ AllDefined(doc.components) /\ Unique(doc.components, NameOf)) =>
        /\ \A a, b \in ComponentNames(doc.components) :
              (Independent(doc.components, a, b)
                   /\ Position(doc.components, a) < Position(doc.components, b))
                  => Position(components, a) < Position(components, b)
        /\ (\A k \in DOMAIN doc.components :
               ReferencedComponents(doc.components[k].items) = {})
              => components = doc.components

\* C23: in a returned Dictionary every converted item, of kind field,
\* group or component and at every depth of the header, the trailer and the
\* components, is required exactly when the required attribute of its raw
\* item is the character Y; with any other character (N, y, X) it is not
\* required, and the import does not fail because of it.
RECURSIVE RequiredFromMarker(_, _)
RequiredFromMarker(items, layout) ==
    /\ Len(layout) = Len(items)
    /\ \A k \in DOMAIN items :
          /\ layout[k].required = (items[k].required = "Y")
          /\ items[k].kind = "group" => RequiredFromMarker(items[k].items, layout[k].items)

LayoutNamed(name) == Get(dict.components, component_by_name(dict, name).v).layout_items

C23_RequiredIsY ==
    /\ Returned =>
          /\ RequiredFromMarker(doc.header, LayoutNamed("StandardHeader"))
          /\ RequiredFromMarker(doc.trailer, LayoutNamed("StandardTrailer"))
          /\ \A k \in DOMAIN components :
                RequiredFromMarker(components[k].items, dict.components[k].layout_items)
    /\ (Finished /\ Len(doc.header) = 1 /\ doc.header[1].required \notin {"Y", "N"})
          => Returned

C23_Witness ==
    /\ Returned
    /\ doc.header = <<GroupItem("NoG", "y", <<FieldItem("F1", "Y")>>)>>
    /\ doc.trailer = <<ComponentItem("A", "Y")>>
    /\ LayoutNamed("StandardHeader") =
           <<LayoutItemGroup(FALSE, 1, <<LayoutItemField(TRUE, 0)>>)>>
    /\ LayoutNamed("StandardTrailer") = <<LayoutItemComponent(TRUE, 0)>>

\* C24: for every item list of a successfully imported document (header,
\* trailer, components, messages) whose names all resolve, the conversion
\* has the length and the order of the list: the item at each position has
\* the kind of the raw item and holds the id of the field or the component
\* with the raw item's name, and the contents of a group are the conversion
\* of its nested list, at every depth.
RECURSIVE StructureKept(_, _, _)
StructureKept(d, items, layout) ==
    /\ Len(layout) = Len(items)
    /\ \A k \in DOMAIN items :
          /\ layout[k].kind = items[k].kind
          /\ IF items[k].kind = "component"
             THEN /\ layout[k].iid \in 0..(Len(d.components) - 1)
                  /\ Get(d.components, layout[k].iid).name = items[k].name
             ELSE /\ layout[k].iid \in 0..(Len(d.fields) - 1)
                  /\ Get(d.fields, layout[k].iid).name = items[k].name
          /\ IF items[k].kind = "group"
             THEN /\ StructureKept(d, items[k].items, layout[k].items)
                  /\ layout[k].items = convert_items(d, items[k].items).layout
             ELSE layout[k].items = <<>>

ItemLists(f) ==
    {f.header, f.trailer} \cup {f.components[k].items : k \in DOMAIN f.components}
        \cup {f.messages[k].items : k \in DOMAIN f.messages}

C24_StructureKept ==
    Returned =>
        \A items \in ItemLists(doc) :
            LET converted == convert_items(dict, items)
            IN converted.ok => StructureKept(dict, items, converted.layout)

C24_Witness ==
    /\ Returned
    /\ Len(doc.header) = 2
    /\ doc.header[1].kind = "group"
    /\ doc.header[1].items # <<>>
    /\ doc.header[1].items[1].kind = "group"
    /\ doc.header[2].kind = "component"
    /\ convert_items(dict, doc.header).ok
    /\ Len(convert_items(dict, doc.header).layout) = 2

\* C25: in a returned Dictionary no component reaches itself through
\* component references, directly or through a chain of them, references
\* inside groups included.
RECURSIVE ComponentIdsIn(_)
ComponentIdsIn(layout) ==
    UNION {CASE layout[k].kind = "component" -> {layout[k].iid}
             [] layout[k].kind = "group" -> ComponentIdsIn(layout[k].items)
             [] OTHER -> {} : k \in DOMAIN layout}

RECURSIVE ReachableIds(_, _)
ReachableIds(d, ids) ==
    LET more == ids \cup UNION {ComponentIdsIn(Get(d.components, iid).layout_items) :
                                   iid \in ids \cap (0..(Len(d.components) - 1))}
    IN IF more = ids THEN ids ELSE ReachableIds(d, more)

C25_Acyclic ==
    Returned =>
        \A k \in DOMAIN dict.components :
            (k - 1) \notin ReachableIds(dict, ComponentIdsIn(dict.components[k].layout_items))

C25_Witness ==
    /\ Returned
    /\ \E k \in DOMAIN dict.components :
          LET layout == dict.components[k].layout_items
          IN /\ layout # <<>>
             /\ layout[1].kind = "group"
             /\ Cardinality(ComponentIdsIn(layout)) = 1
             /\ Cardinality(ReachableIds(dict, ComponentIdsIn(layout))) = 2

Expanded == visiting \cup visited

C27_SortTerminates ==
    /\ []((pc = "sort_loop") =>
             /\ visiting \cap visited = {}
             /\ Unique(sorted, NameOf)
             /\ {sorted[k].name : k \in DOMAIN sorted} = visited)
    /\ [][(pc = "sort_loop" /\ pc' = "sort_loop") =>
             /\ Expanded \subseteq Expanded'
             /\ Cardinality(Expanded') <= Cardinality(Expanded) + 1
             /\ Len(sorted') <= Len(sorted) + 1]_vars
    /\ (pc = "sort_loop" /\ AllDefined(doc.components)) ~> (pc = "components")

C27_Witness ==
    /\ pc = "components"
    /\ i = 1
    /\ AllDefined(doc.components)
    /\ Cyclic(doc.components)
    /\ Len(doc.components) = 3
    /\ Len(doc.components[1].items) = 3
    /\ Len(doc.components[3].items) = 2
    /\ Len(sorted) = 3

\* C28: when the names of the input components are pairwise distinct and
\* every component reference names a component of the input, the sorted
\* list is a permutation of the input list: it has the same length and the
\* same components, each once and with its item list unchanged.
C28_SortPermutes ==
    (SortFinished /\ Unique(doc.components, NameOf) /\ AllDefined(doc.components)) =>
        /\ Len(components) = Len(doc.components)
        /\ Range(components) = Range(doc.components)
        /\ Unique(components, NameOf)

C28_Witness ==
    /\ pc = "components"
    /\ i = 1
    /\ Unique(doc.components, NameOf)
    /\ AllDefined(doc.components)
    /\ Len(doc.components) = 3
    /\ \E k \in DOMAIN doc.components : doc.components[k].items # <<>>
    /\ components # doc.components
    /\ Range(components) = Range(doc.components)

(***************************************************************************)
(* C29: every add of a builder (add_field, add_message, add_component,     *)
(* add_datatype, add_section) returns the number of entities of that kind  *)
(* added before it, appends exactly that entity to the collection of its   *)
(* kind and leaves every other collection as it was; so after any sequence *)
(* of adds the ids returned for a kind are 0, 1, .. in the order of the    *)
(* calls and the element at position id is the entity that was added.      *)
(***************************************************************************)
BuilderKinds == {"field", "message", "datatype", "section"}
DictKinds == {"field", "message", "component", "datatype"}

BuilderCollection(b, kind) ==
    CASE kind = "field" -> b.fields
      [] kind = "message" -> b.messages
      [] kind = "datatype" -> b.data_types
      [] OTHER -> b.sections

DictCollection(d, kind) ==
    CASE kind = "field" -> d.fields
      [] kind = "message" -> d.messages
      [] kind = "component" -> d.components
      [] OTHER -> d.data_types

CollectionOn(on, kind) ==
    IF on = "builder" THEN BuilderCollection(builder, kind) ELSE DictCollection(dict, kind)

CallsOf(on, kind) == SelectSeq(added, LAMBDA c : c.on = on /\ c.kind = kind)

IdsInInsertionOrder(on, kind) ==
    LET calls == CallsOf(on, kind)
        collection == CollectionOn(on, kind)
    IN /\ Len(collection) = Len(calls)
       /\ \A k \in DOMAIN calls :
              /\ calls[k].id = k - 1
              /\ Get(collection, calls[k].id) = calls[k].entity

AfterAdd(old, new, touched, entity) == new = IF touched THEN Append(old, entity) ELSE old

OneAdd ==
    LET c == added'[Len(added')]
    IN /\ Len(added') = Len(added) + 1
       /\ c.id = Len(CollectionOn(c.on, c.kind))
       /\ \A kind \in BuilderKinds :
              AfterAdd(BuilderCollection(builder, kind), BuilderCollection(builder', kind),
                       c.on = "builder" /\ c.kind = kind, c.entity)
       /\ \A kind \in DictKinds :
              AfterAdd(DictCollection(dict, kind), DictCollection(dict', kind),
                       c.on = "dict" /\ c.kind = kind, c.entity)

C29_BuilderIds ==
    /\ [](pc = "builder" =>
              /\ \A kind \in BuilderKinds : IdsInInsertionOrder("builder", kind)
              /\ \A kind \in DictKinds : IdsInInsertionOrder("dict", kind))
    /\ [][pc = "builder" => OneAdd]_vars

C29_Witness ==
    /\ pc = "builder"
    /\ TotalAdds = MaxAdds
    /\ \E on \in {"builder", "dict"}, kind \in BuilderKinds \cup DictKinds :
           /\ Len(CallsOf(on, kind)) >= 2
           /\ CallsOf(on, kind)[1].entity # CallsOf(on, kind)[2].entity
           /\ \E other \in (BuilderKinds \cup DictKinds) \ {kind} : Len(CallsOf(on, other)) = 1

(***************************************************************************)
(* C30: Message::group_info(tag) completes for every layout and every tag. *)
(* It answers the tag of the first item of a top-level group whose counter *)
(* field has the given tag when that first item is a field, and absent     *)
(* otherwise, also when the nested item list of the group is empty.        *)
(***************************************************************************)
TopLevelGroups(d, message, tag) ==
    {k \in DOMAIN message.layout_items :
        /\ message.layout_items[k].kind = "group"
        /\ Get(d.fields, message.layout_items[k].iid).tag = tag}

FirstFieldTags(d, message, tag) ==
    {Get(d.fields, message.layout_items[k].items[1].iid).tag :
        k \in {g \in TopLevelGroups(d, message, tag) :
                  /\ message.layout_items[g].items # <<>>
                  /\ message.layout_items[g].items[1].kind = "field"}}

GroupInfoAsked(r) ==
    /\ observed[r].some
    /\ observed[r].query = "group_info"
    /\ observed[r].answer[1] \in Range(dict.messages)

C30_GroupInfoTotal ==
    \A r \in Readers :
        GroupInfoAsked(r) =>
            LET message == observed[r].answer[1]
                tag == observed[r].answer[2]
                result == observed[r].answer[3]
                tags == FirstFieldTags(dict, message, tag)
            IN /\ result.outcome = "ok"
               /\ IF tags = {} THEN ~result.v.some ELSE result.v.some /\ result.v.v \in tags

====
